---- MODULE Spec2Model ----
(***************************************************************************)
(* Prop Rig Generating Tool (final.py): the four button handlers           *)
(* create_group, place_locators, build_rig and bind_geom, run against the  *)
(* host application's scene graph.                                         *)
(*                                                                         *)
(* The scene graph is the only state the tool has.  It is modelled as the  *)
(* list of DAG nodes (name, node type, parent, local translation), the     *)
(* host's active selection list and the set of skinned geometry.  Space is *)
(* one-dimensional: a world translation is the sum of the local            *)
(* translations on the path to the world.                                  *)
(*                                                                         *)
(* Host commands (maya.cmds) are modelled by what they do to that state:   *)
(*   group -empty, spaceLocator, joint   create a node and leave the new   *)
(*                                       node as the active selection      *)
(*   parent                              keeps the world position, renames *)
(*                                       on a sibling name clash, selects  *)
(*                                       the moved node; fails when the    *)
(*                                       node is already a child of the    *)
(*                                       target or the target is the node  *)
(*                                       or one of its descendants         *)
(*   xform -worldSpace -translation      sets the local translation so     *)
(*                                       that the world translation is the *)
(*                                       given one                         *)
(*   ls -selection -long                 full paths, each with a leading | *)
(* A locator is modelled as its transform node alone: no handler addresses *)
(* the locator shape beneath it.                                           *)
(***************************************************************************)
EXTENDS Integers, Sequences, FiniteSets, TLC

VARIABLES scene, env, out

vars == <<scene, env, out>>

\* ---------------------------------------------------------------- bounds
MaxPos == 1
MaxSel == 1
MaxNodes == 13
MaxBatch == 2

Pos == 0..MaxPos

\* ------------------------------------------------------ names and paths
World == 0

Nm(b) == <<b, 0>>

\* The "|" that starts a full path.
Bar == Nm("|")

_asset_name(e) == IF e = "" THEN "defaultAsset" ELSE e

_grp_names(asset) == <<Nm("GRP_" \o asset), Nm("GRP_geom"), Nm("GRP_rig")>>

_loc_names == <<Nm("LOC_root"), Nm("LOC_base"), Nm("LOC_move")>>

_jnt_names == <<Nm("JNT_root"), Nm("JNT_base"), Nm("JNT_move")>>

Ids(S) == 1..Len(S.nodes)

RECURSIVE NamePath(_, _)
NamePath(S, i) ==
  IF i = World THEN <<>>
  ELSE Append(NamePath(S, S.nodes[i].parent), S.nodes[i].name)

\* The full path of a node, as ls -long and fullPath=True give it.
FullPath(S, i) == <<Bar>> \o NamePath(S, i)

RECURSIVE TailIs(_, _, _, _)
\* The last k names of p are the names of node i and its ancestors, and for a
\* full path those ancestors end at the world.
TailIs(S, i, p, k) ==
  IF k = 0 THEN TRUE
  ELSE IF p[k] = Bar THEN i = World
  ELSE /\ i # World
       /\ S.nodes[i].name = p[k]
       /\ TailIs(S, S.nodes[i].parent, p, k - 1)

\* The nodes a name or path denotes: a full path "|a|b" from the world down,
\* a short name or a partial path "a|b" by the tail of the node's path.
Match(S, p) == {i \in Ids(S) : TailIs(S, i, p, Len(p))}

objExists(S, p) == Match(S, p) # {}

Resolve(S, p) == CHOOSE i \in Match(S, p) : TRUE

RECURSIVE WorldT(_, _)
WorldT(S, i) ==
  IF i = World THEN 0 ELSE S.nodes[i].t + WorldT(S, S.nodes[i].parent)

RECURSIVE IsAncestor(_, _, _)
\* a is i or an ancestor of i.
IsAncestor(S, a, i) ==
  IF i = World THEN FALSE
  ELSE i = a \/ IsAncestor(S, a, S.nodes[i].parent)

Children(S, p) == {i \in Ids(S) : S.nodes[i].parent = p}

\* The shortest path tail that denotes node i alone, as listRelatives
\* returns a node without fullPath; the full path when no tail does.
RECURSIVE ShortFrom(_, _, _)
ShortFrom(S, i, k) ==
  LET np == NamePath(S, i)
      tail == SubSeq(np, Len(np) - k + 1, Len(np))
  IN IF k > Len(np) THEN FullPath(S, i)
     ELSE IF Match(S, tail) = {i} THEN tail
     ELSE ShortFrom(S, i, k + 1)

ShortName(S, i) == ShortFrom(S, i, 1)

\* ------------------------------------------------------------ host calls
Node(nm, ty, par, tr) == [name |-> nm, type |-> ty, parent |-> par, t |-> tr]

\* The name a node gets under parent p: its own, or on a clash with a
\* sibling the base name with the first free number.
RECURSIVE FreeName(_, _, _, _)
FreeName(S, p, b, k) ==
  IF \E c \in Children(S, p) : S.nodes[c].name = <<b, k>>
  THEN FreeName(S, p, b, k + 1)
  ELSE <<b, k>>

\* cmds.group(empty=True, name=..., [parent=...]), cmds.spaceLocator(name=...)
\* and cmds.joint(name=..., position=...) with nothing selected: a new node
\* under p at world translation w, which becomes the selection.
hostCreate(S, nm, ty, p, w) ==
  LET new == Node(FreeName(S, p, nm[1], nm[2]), ty, p, w - WorldT(S, p))
  IN [S EXCEPT !.nodes = Append(@, new), !.sel = <<Len(S.nodes) + 1>>]

\* cmds.parent(child, target) raises instead of moving.
parentFails(S, c, p) ==
  \/ S.nodes[c].parent = p
  \/ IsAncestor(S, c, p)

\* cmds.parent(child, target): world position kept, the moved node selected.
hostParent(S, c, p) ==
  LET nm == FreeName(S, p, S.nodes[c].name[1], S.nodes[c].name[2])
      w == WorldT(S, c)
  IN [S EXCEPT !.nodes[c] = Node(nm, S.nodes[c].type, p, w - WorldT(S, p)),
               !.sel = <<c>>]

\* Mutant: the translation is set in object space.
hostXform_objectSpace(S, i, w) == [S EXCEPT !.nodes[i].t = w]

\* cmds.xform(node, worldSpace=True, translation=w)
hostXform(S, i, w) ==
  [S EXCEPT !.nodes[i].t = w - WorldT(S, S.nodes[i].parent)]

\* cmds.ls(selection=True, long=True)
lsSelection(S) == [k \in 1..Len(S.sel) |-> FullPath(S, S.sel[k])]

\* ------------------------------------------------------------------ log
Log(lvl, msg) == <<lvl, msg, 0>>

LogN(lvl, msg, n) == <<lvl, msg, n>>

AssetLog(e) ==
  IF e = "" THEN <<Log("WARNING", "ASSET env var not set")>> ELSE <<>>

Result(S, lg, cl, rs) == [S |-> S, log |-> lg, calls |-> cl, raised |-> rs]

HasLevel(lg, lvl) == \E k \in 1..Len(lg) : lg[k][1] = lvl

\* ------------------------------------------------------------- handlers

\* One pass of the loop "for node in sel" of create_group, from index k on.
\* paths are the full paths ls returned before the loop.  A path that no
\* longer denotes a node makes cmds.nodeType raise outside the try block:
\* the handler ends there.
RECURSIVE ParentLoop(_, _, _, _, _, _, _)
ParentLoop(S, paths, k, geom_path, lg, cl, moved) ==
  IF k > Len(paths)
  THEN Result(S, Append(lg, LogN("INFO", "Moved item(s) under GRP_geom", moved)), cl, FALSE)
  ELSE
    IF ~objExists(S, paths[k])
    THEN Result(S, lg, cl, TRUE)
    ELSE
      LET node == Resolve(S, paths[k])
          par == S.nodes[node].parent
          xform == IF S.nodes[node].type # "transform" /\ par # World
                   THEN par ELSE node
          call == <<"parent", xform>>
      IN IF ~objExists(S, geom_path) \/ parentFails(S, xform, Resolve(S, geom_path))
         THEN ParentLoop(S, paths, k + 1, geom_path,
                         Append(lg, Log("WARNING", "Could not parent")),
                         Append(cl, call), moved)
         ELSE ParentLoop(hostParent(S, xform, Resolve(S, geom_path)), paths, k + 1,
                         geom_path, lg, Append(cl, call), moved + 1)

\* Mutant: GRP_rig is created without looking whether it exists.
EnsureGroups_rig_unchecked(S0, e) ==
  LET asset == _asset_name(e)
      root == _grp_names(asset)[1]
      mkRoot == ~objExists(S0, <<root>>)
      S1 == IF mkRoot THEN hostCreate(S0, root, "transform", World, 0) ELSE S0
      mkGeom == ~objExists(S1, <<root, _grp_names(asset)[2]>>)
      S2 == IF mkGeom
            THEN hostCreate(S1, _grp_names(asset)[2], "transform", Resolve(S1, <<root>>),
                            WorldT(S1, Resolve(S1, <<root>>)))
            ELSE S1
      S3 == hostCreate(S2, _grp_names(asset)[3], "transform", Resolve(S2, <<root>>),
                       WorldT(S2, Resolve(S2, <<root>>)))
  IN Result(S3, Append(AssetLog(e), Log("INFO", "Created GRP_rig")), <<>>, FALSE)

\* The first part of create_group: the root group and its two child groups
\* are created where they do not exist.
EnsureGroups(S0, e) ==
  LET asset == _asset_name(e)
      root == _grp_names(asset)[1]
      geom == _grp_names(asset)[2]
      rig == _grp_names(asset)[3]
      mkRoot == ~objExists(S0, <<root>>)
      S1 == IF mkRoot THEN hostCreate(S0, root, "transform", World, 0) ELSE S0
      l1 == Append(AssetLog(e),
                   IF mkRoot THEN Log("INFO", "Created root group")
                   ELSE Log("INFO", "root group already exists"))
      geom_path == <<root, geom>>
      rig_path == <<root, rig>>
      mkGeom == ~objExists(S1, geom_path)
      S2 == IF mkGeom
            THEN hostCreate(S1, geom, "transform", Resolve(S1, <<root>>),
                            WorldT(S1, Resolve(S1, <<root>>)))
            ELSE S1
      l2 == IF mkGeom THEN Append(l1, Log("INFO", "Created GRP_geom")) ELSE l1
      mkRig == ~objExists(S2, rig_path)
      S3 == IF mkRig
            THEN hostCreate(S2, rig, "transform", Resolve(S2, <<root>>),
                            WorldT(S2, Resolve(S2, <<root>>)))
            ELSE S2
      l3 == IF mkRig THEN Append(l2, Log("INFO", "Created GRP_rig")) ELSE l2
  IN Result(S3, l3, <<>>, FALSE)

create_group(S0, e) ==
  LET g == EnsureGroups(S0, e)
      geom_path == <<_grp_names(_asset_name(e))[1], _grp_names(_asset_name(e))[2]>>
      sel == lsSelection(g.S)
  IN IF sel = <<>>
     THEN Result(g.S, Append(g.log, Log("WARNING", "No selection found")), <<>>, FALSE)
     ELSE ParentLoop(g.S, sel, 1, geom_path, g.log, <<>>, 0)

\* Mutant: only a locator that was just created is placed at the pivot.
RECURSIVE LocatorLoop_place_new_only(_, _, _, _)
LocatorLoop_place_new_only(S, k, pivot, lg) ==
  IF k > Len(_loc_names)
  THEN Result(S, Append(lg, Log("INFO", "Locators placed")), <<>>, FALSE)
  ELSE
    LET loc == <<_loc_names[k]>>
        mk == ~objExists(S, loc)
        S1 == IF mk THEN hostCreate(S, _loc_names[k], "transform", World, 0) ELSE S
        l1 == IF mk THEN Append(lg, Log("INFO", "Created locator")) ELSE lg
    IN LocatorLoop_place_new_only(IF mk THEN hostXform(S1, Resolve(S1, loc), pivot) ELSE S1,
                                  k + 1, pivot, l1)

\* The loop "for loc in (...)" of place_locators, from index k on.
RECURSIVE LocatorLoop(_, _, _, _)
LocatorLoop(S, k, pivot, lg) ==
  IF k > Len(_loc_names)
  THEN Result(S, Append(lg, Log("INFO", "Locators placed")), <<>>, FALSE)
  ELSE
    LET loc == <<_loc_names[k]>>
        mk == ~objExists(S, loc)
        S1 == IF mk THEN hostCreate(S, _loc_names[k], "transform", World, 0) ELSE S
        l1 == IF mk THEN Append(lg, Log("INFO", "Created locator")) ELSE lg
    IN LocatorLoop(hostXform(S1, Resolve(S1, loc), pivot), k + 1, pivot, l1)

\* Mutant: the error is logged and the return after it is missing.
place_locators_no_return(S, e) ==
  LET root == _grp_names(_asset_name(e))[1]
      there == objExists(S, <<root>>)
      lg == IF there THEN AssetLog(e)
            ELSE Append(AssetLog(e), Log("ERROR", "root group does not exist"))
  IN LocatorLoop(S, 1, IF there THEN WorldT(S, Resolve(S, <<root>>)) ELSE 0, lg)

\* Mutant: without a root group the locators are placed at the origin.
place_locators_without_root(S, e) ==
  LocatorLoop(S, 1,
              IF objExists(S, <<_grp_names(_asset_name(e))[1]>>)
              THEN WorldT(S, Resolve(S, <<_grp_names(_asset_name(e))[1]>>)) ELSE 0,
              AssetLog(e))

place_locators(S, e) ==
  LET asset == _asset_name(e)
      root == _grp_names(asset)[1]
  IN IF ~objExists(S, <<root>>)
     THEN Result(S, Append(AssetLog(e), Log("ERROR", "root group does not exist")),
                 <<>>, FALSE)
     ELSE LocatorLoop(S, 1, WorldT(S, Resolve(S, <<root>>)), AssetLog(e))

\* Mutant: the existence check is skipped for JNT_move.
_ensure_joint_move_unchecked(S, name, pos) ==
  IF objExists(S, <<name>>) /\ name # _jnt_names[3]
  THEN [S |-> hostXform(S, Resolve(S, <<name>>), pos),
        log |-> <<LogN("INFO", "Moved joint to locator position", name[1])>>]
  ELSE [S |-> hostCreate([S EXCEPT !.sel = <<>>], name, "joint", World, pos),
        log |-> <<LogN("INFO", "Created joint", name[1])>>]

\* _ensure_joint of build_rig: move the joint of that name, or clear the
\* selection and create it at the world level.
_ensure_joint(S, name, pos) ==
  IF objExists(S, <<name>>)
  THEN [S |-> hostXform(S, Resolve(S, <<name>>), pos),
        log |-> <<LogN("INFO", "Moved joint to locator position", name[1])>>]
  ELSE [S |-> hostCreate([S EXCEPT !.sel = <<>>], name, "joint", World, pos),
        log |-> <<LogN("INFO", "Created joint", name[1])>>]

\* cmds.listRelatives(node, parent=True): None at the world level, else the
\* shortest unique name of the parent.
listParent(S, i) ==
  IF S.nodes[i].parent = World THEN <<>>
  ELSE <<ShortName(S, S.nodes[i].parent)>>

\* cmds.listRelatives(node, parent=True, fullPath=True)
listParentFull(S, i) ==
  IF S.nodes[i].parent = World THEN <<>>
  ELSE <<FullPath(S, S.nodes[i].parent)>>

\* Mutant: a node is parented only while it is at the world level.
GuardedParent_only_from_world(R, differs, c, p) ==
  IF R.raised \/ ~differs \/ R.S.nodes[c].parent # World THEN R
  ELSE IF parentFails(R.S, c, p)
       THEN [R EXCEPT !.calls = Append(@, <<"parent", c>>), !.raised = TRUE]
       ELSE [R EXCEPT !.S = hostParent(R.S, c, p),
                      !.calls = Append(@, <<"parent", c>>)]

\* Mutant: the two arguments of cmds.parent are exchanged.
GuardedParent_swapped(R, differs, c, p) ==
  IF R.raised \/ ~differs THEN R
  ELSE IF parentFails(R.S, p, c)
       THEN [R EXCEPT !.calls = Append(@, <<"parent", p>>), !.raised = TRUE]
       ELSE [R EXCEPT !.S = hostParent(R.S, p, c),
                      !.calls = Append(@, <<"parent", p>>)]

\* "if cmds.listRelatives(c, parent=True) != [p]: cmds.parent(c, p)" inside
\* a try block: R carries the scene, the calls and whether the block was
\* left by an exception.
GuardedParent(R, differs, c, p) ==
  IF R.raised \/ ~differs THEN R
  ELSE IF parentFails(R.S, c, p)
       THEN [R EXCEPT !.calls = Append(@, <<"parent", c>>), !.raised = TRUE]
       ELSE [R EXCEPT !.S = hostParent(R.S, c, p),
                      !.calls = Append(@, <<"parent", c>>)]

\* "for loc in (...): if not cmds.objExists(loc)" of build_rig
MissingLocator(S) == \E k \in 1..3 : ~objExists(S, <<_loc_names[k]>>)

\* build_rig after its checks: read the locators, ensure the joints, chain
\* them and put the chain under the rig group.
BuildJoints(S0, e, rig_path) ==
  LET locs == _loc_names
      jnts == _jnt_names
      p_root == WorldT(S0, Resolve(S0, <<locs[1]>>))
      p_base == WorldT(S0, Resolve(S0, <<locs[2]>>))
      p_move == WorldT(S0, Resolve(S0, <<locs[3]>>))
      e1 == _ensure_joint(S0, jnts[1], p_root)
      e2 == _ensure_joint(e1.S, jnts[2], p_base)
      e3 == _ensure_joint(e2.S, jnts[3], p_move)
      S3 == e3.S
      jr == Resolve(S3, <<jnts[1]>>)
      jb == Resolve(S3, <<jnts[2]>>)
      jm == Resolve(S3, <<jnts[3]>>)
      l3 == AssetLog(e) \o e1.log \o e2.log \o e3.log
      \* try: JNT_root -> JNT_base -> JNT_move
      t0 == Result(S3, l3, <<>>, FALSE)
      t1 == GuardedParent(t0, listParent(t0.S, jb) # <<<<jnts[1]>>>>, jb, jr)
      t2 == GuardedParent(t1, listParent(t1.S, jm) # <<<<jnts[2]>>>>, jm, jb)
      l4 == IF t2.raised
            THEN Append(l3, Log("WARNING", "Parenting joints failed")) ELSE l3
      \* try: the chain under GRP_rig
      u0 == Result(t2.S, l4, t2.calls, FALSE)
      u1 == GuardedParent(u0, listParentFull(u0.S, jr) # <<rig_path>>,
                          jr, Resolve(u0.S, rig_path))
      l5 == IF u1.raised
            THEN Append(l4, Log("WARNING", "Parenting JNT_root under GRP_rig failed"))
            ELSE l4
  IN Result(u1.S, Append(l5, Log("INFO", "Rig built/updated")), u1.calls, FALSE)

\* Mutant: the locators are checked after the first joint is made.
build_rig_late_check(S0, e) ==
  LET rig_path == <<_grp_names(_asset_name(e))[1], _grp_names(_asset_name(e))[3]>>
  IN IF ~objExists(S0, rig_path)
     THEN Result(S0, Append(AssetLog(e), Log("ERROR", "rig group does not exist")),
                 <<>>, FALSE)
     ELSE IF MissingLocator(S0)
     THEN Result(_ensure_joint(S0, _jnt_names[1], 0).S,
                 Append(AssetLog(e), Log("ERROR", "locator not found")), <<>>, FALSE)
     ELSE BuildJoints(S0, e, rig_path)

\* Mutant: the rig group is always the one of the default asset.
build_rig_default_asset(S0, e) ==
  LET rig_path == <<_grp_names("defaultAsset")[1], _grp_names("defaultAsset")[3]>>
  IN IF ~objExists(S0, rig_path)
     THEN Result(S0, Append(AssetLog(e), Log("ERROR", "rig group does not exist")),
                 <<>>, FALSE)
     ELSE IF MissingLocator(S0)
     THEN Result(S0, Append(AssetLog(e), Log("ERROR", "locator not found")),
                 <<>>, FALSE)
     ELSE BuildJoints(S0, e, rig_path)

build_rig(S0, e) ==
  LET rig_path == <<_grp_names(_asset_name(e))[1], _grp_names(_asset_name(e))[3]>>
  IN IF ~objExists(S0, rig_path)
     THEN Result(S0, Append(AssetLog(e), Log("ERROR", "rig group does not exist")),
                 <<>>, FALSE)
     ELSE IF MissingLocator(S0)
     THEN Result(S0, Append(AssetLog(e), Log("ERROR", "locator not found")),
                 <<>>, FALSE)
     ELSE BuildJoints(S0, e, rig_path)

\* The members of a set of node numbers in increasing order.
RECURSIVE SetToSeq(_)
SetToSeq(X) ==
  IF X = {} THEN <<>>
  ELSE LET m == CHOOSE a \in X : \A b \in X : a <= b
       IN <<m>> \o SetToSeq(X \ {m})

\* cmds.listRelatives(geom_path, allDescendents=True, type="transform")
TransformsUnder(S, g) ==
  {i \in Ids(S) : i # g /\ IsAncestor(S, g, i) /\ S.nodes[i].type = "transform"}

\* The candidates that own at least one mesh shape.
MeshOwners(S, g) ==
  {t \in TransformsUnder(S, g) :
     \E c \in Children(S, t) : S.nodes[c].type = "mesh"}

\* Mutant: the "if not geos" check is missing.
BindMeshes_no_empty_check(S, e, geos) ==
  LET picked == [k \in 1..3 |-> Resolve(S, <<_jnt_names[k]>>)] \o SetToSeq(geos)
      S1 == [S EXCEPT !.sel = picked]
      call == <<"skinCluster", Cardinality(geos)>>
  IN IF geos \cap S.skin # {}
     THEN Result(S1, Append(AssetLog(e), Log("ERROR", "Bind failed")), <<call>>, FALSE)
     ELSE Result([S1 EXCEPT !.skin = @ \cup geos],
                 Append(AssetLog(e),
                        LogN("INFO", "Bound mesh transform(s)", Cardinality(geos))),
                 <<call>>, FALSE)

\* Mutant: meshes that already have a skin are left out of the bind.
BindMeshes_skip_skinned(S, e, geos) ==
  LET fresh == geos \ S.skin
      picked == [k \in 1..3 |-> Resolve(S, <<_jnt_names[k]>>)] \o SetToSeq(fresh)
  IN IF fresh = {}
     THEN Result(S, Append(AssetLog(e), Log("WARNING", "No mesh geometry found")),
                 <<>>, FALSE)
     ELSE Result([S EXCEPT !.sel = picked, !.skin = @ \cup fresh],
                 Append(AssetLog(e),
                        LogN("INFO", "Bound mesh transform(s)", Cardinality(fresh))),
                 << <<"skinCluster", Cardinality(fresh)>> >>, FALSE)

\* bind_geom from "if not geos" on: nothing to bind, or one skinCluster call
\* on the joints and the meshes, which the host refuses when a mesh already
\* has a skin.
BindMeshes(S, e, geos) ==
  LET picked == [k \in 1..3 |-> Resolve(S, <<_jnt_names[k]>>)] \o SetToSeq(geos)
      S1 == [S EXCEPT !.sel = picked]
      call == <<"skinCluster", Cardinality(geos)>>
  IN IF geos = {}
     THEN Result(S, Append(AssetLog(e), Log("WARNING", "No mesh geometry found")),
                 <<>>, FALSE)
     ELSE IF geos \cap S.skin # {}
     THEN Result(S1, Append(AssetLog(e), Log("ERROR", "Bind failed")), <<call>>, FALSE)
     ELSE Result([S1 EXCEPT !.skin = @ \cup geos],
                 Append(AssetLog(e),
                        LogN("INFO", "Bound mesh transform(s)", Cardinality(geos))),
                 <<call>>, FALSE)

bind_geom(S, e) ==
  LET asset == _asset_name(e)
      root == _grp_names(asset)[1]
      geom_path == <<root, _grp_names(asset)[2]>>
      rig_path == <<root, _grp_names(asset)[3]>>
  IN IF ~objExists(S, geom_path) \/ ~objExists(S, rig_path)
     THEN Result(S, Append(AssetLog(e), Log("ERROR", "Groups missing")), <<>>, FALSE)
     ELSE IF \E k \in 1..3 : ~objExists(S, <<_jnt_names[k]>>)
     THEN Result(S, Append(AssetLog(e), Log("ERROR", "Joints missing")), <<>>, FALSE)
     ELSE BindMeshes(S, e, MeshOwners(S, Resolve(S, geom_path)))

\* ------------------------------------------------------------ the system

EnvValues == {"", "trex"}

\* The geometry the artist brings: a cube, transform and mesh shape.
Geometry ==
  <<Node(Nm("pCube1"), "transform", World, 0), Node(Nm("pCubeShape1"), "mesh", 1, 0)>>

\* The scene the tool is opened on: the geometry alone, or the geometry and
\* a group hierarchy for the asset set up beforehand, its root group placed
\* away from the origin.
StartScenes(e) ==
  LET bare == [nodes |-> Geometry, sel |-> <<>>, skin |-> {}]
      root == _grp_names(_asset_name(e))[1]
      grouped == [bare EXCEPT !.nodes = @ \o
                    << Node(root, "transform", World, MaxPos),
                       Node(_grp_names(_asset_name(e))[2], "transform", 3, 0),
                       Node(_grp_names(_asset_name(e))[3], "transform", 3, 0) >>]
  IN {bare, grouped}

Out(op, R) == [op |-> op, log |-> R.log, calls |-> R.calls, raised |-> R.raised]

Init ==
  /\ env \in EnvValues
  /\ scene \in StartScenes(env)
  /\ out = [op |-> "show_ui", log |-> <<>>, calls |-> <<>>, raised |-> FALSE]

Press(op, result) ==
  \E R \in {result} :
    /\ Len(R.S.nodes) <= MaxNodes
    /\ scene' = R.S
    /\ out' = Out(op, R)
    /\ UNCHANGED env

CreateGroup == Press("create_group", create_group(scene, env))

PlaceLocators == Press("place_locators", place_locators(scene, env))

BuildRig == Press("build_rig", build_rig(scene, env))

BindGeom == Press("bind_geom", bind_geom(scene, env))

\* Sequences of at most n distinct members of X.
RECURSIVE Picks(_, _)
Picks(X, n) ==
  IF n = 0 THEN {<<>>}
  ELSE LET shorter == Picks(X, n - 1)
       IN shorter \cup {Append(q, x) : q \in {r \in shorter : Len(r) = n - 1},
                                        x \in X}

NoRepeat(q) == \A a, b \in 1..Len(q) : a # b => q[a] # q[b]

\* What the artist picks for [Create Group]: geometry (a mesh shape or the
\* transform that owns one) and joints.
Pickable(S) ==
  {i \in Ids(S) :
     \/ S.nodes[i].type \in {"mesh", "joint"}
     \/ \E c \in Children(S, i) : S.nodes[c].type = "mesh"}

\* The artist picks nodes in the viewport or the outliner.
ArtistSelect ==
  /\ \E q \in {r \in Picks(Pickable(scene), MaxSel) : NoRepeat(r)} :
       /\ q # scene.sel
       /\ scene' = [scene EXCEPT !.sel = q]
  /\ out' = [op |-> "select", log |-> <<>>, calls |-> <<>>, raised |-> FALSE]
  /\ UNCHANGED env

Movable(S, e) ==
  {i \in Ids(S) : S.nodes[i].name \in {_loc_names[k] : k \in 1..3}}

\* The artist drags a locator to a position.
ArtistMove ==
  /\ \E i \in Movable(scene, env), p \in Pos :
       /\ WorldT(scene, i) # p
       /\ scene' = hostXform(scene, i, p)
  /\ out' = [op |-> "move", log |-> <<>>, calls |-> <<>>, raised |-> FALSE]
  /\ UNCHANGED env

Next ==
  \/ CreateGroup
  \/ PlaceLocators
  \/ BuildRig
  \/ BindGeom
  \/ ArtistSelect
  \/ ArtistMove

Spec == Init /\ [][Next]_vars

\* The artist picks several nodes at once in the outliner, any nodes of the
\* scene, in the order picked.
ArtistSelectBatch ==
  /\ \E q \in {r \in Picks(Ids(scene), MaxBatch) : NoRepeat(r)} :
       /\ q # scene.sel
       /\ scene' = [scene EXCEPT !.sel = q]
  /\ out' = [op |-> "select", log |-> <<>>, calls |-> <<>>, raised |-> FALSE]
  /\ UNCHANGED env

\* Grouping and locator placement with batches of picked nodes.
NextBatch ==
  \/ CreateGroup
  \/ PlaceLocators
  \/ ArtistSelectBatch

SpecBatch == Init /\ [][NextBatch]_vars

\* A scene with two pieces of geometry, a cube and a sphere, and the group
\* hierarchy of the asset set up beforehand.
TwoMeshScene(e) ==
  [nodes |-> Geometry \o
             << Node(Nm("pSphere1"), "transform", World, 0),
                Node(Nm("pSphereShape1"), "mesh", 3, 0),
                Node(_grp_names(_asset_name(e))[1], "transform", World, MaxPos),
                Node(_grp_names(_asset_name(e))[2], "transform", 5, 0),
                Node(_grp_names(_asset_name(e))[3], "transform", 5, 0) >>,
   sel |-> <<>>, skin |-> {}]

InitMeshes ==
  /\ env \in EnvValues
  /\ scene = TwoMeshScene(env)
  /\ out = [op |-> "show_ui", log |-> <<>>, calls |-> <<>>, raised |-> FALSE]

\* The four buttons and single picks on a scene with two meshes.
NextMeshes ==
  \/ CreateGroup
  \/ PlaceLocators
  \/ BuildRig
  \/ BindGeom
  \/ ArtistSelect

SpecMeshes == InitMeshes /\ [][NextMeshes]_vars

\* A scene the tool has not been used on: nothing at all, or the geometry.
EmptyScenes ==
  {[nodes |-> <<>>, sel |-> <<>>, skin |-> {}],
   [nodes |-> Geometry, sel |-> <<>>, skin |-> {}]}

InitEmpty ==
  /\ env \in EnvValues
  /\ scene \in EmptyScenes
  /\ out = [op |-> "show_ui", log |-> <<>>, calls |-> <<>>, raised |-> FALSE]

\* The tool used from an empty scene on, for one asset.
SpecEmpty == InitEmpty /\ [][Next]_vars

\* A scene with the group hierarchies of two assets set up beforehand.
TwoAssetScene ==
  [nodes |-> << Node(_grp_names(_asset_name(""))[1], "transform", World, 0),
                Node(_grp_names(_asset_name(""))[2], "transform", 1, 0),
                Node(_grp_names(_asset_name(""))[3], "transform", 1, 0),
                Node(_grp_names(_asset_name("trex"))[1], "transform", World, MaxPos),
                Node(_grp_names(_asset_name("trex"))[2], "transform", 4, 0),
                Node(_grp_names(_asset_name("trex"))[3], "transform", 4, 0) >>,
   sel |-> <<>>, skin |-> {}]

InitAssets ==
  /\ env \in EnvValues
  /\ scene = TwoAssetScene
  /\ out = [op |-> "show_ui", log |-> <<>>, calls |-> <<>>, raised |-> FALSE]

\* The ASSET variable is changed between two presses: os.getenv is read anew
\* by every handler.
SetEnv ==
  /\ \E e \in EnvValues \ {env} : env' = e
  /\ out' = [op |-> "setenv", log |-> <<>>, calls |-> <<>>, raised |-> FALSE]
  /\ UNCHANGED scene

\* The tool used for two assets in turn on one scene.
NextAssets ==
  \/ CreateGroup
  \/ PlaceLocators
  \/ BuildRig
  \/ BindGeom
  \/ ArtistMove
  \/ SetEnv

SpecAssets == InitAssets /\ [][NextAssets]_vars

\* ------------------------------------------------------------ properties

\* Names and paths of the current asset.
RootNm == _grp_names(_asset_name(env))[1]

GeomPath == <<RootNm, _grp_names(_asset_name(env))[2]>>

RigPath == <<RootNm, _grp_names(_asset_name(env))[3]>>

\* The nodes whose name is b, or b with a number the host appended.
Named(S, b) == {i \in Ids(S) : S.nodes[i].name[1] = b}

Joints(S) == {i \in Ids(S) : S.nodes[i].type = "joint"}

Logged(lvl, msg) == \E k \in 1..Len(out.log) : out.log[k][1] = lvl /\ out.log[k][2] = msg

LoggedFor(lvl, msg, n) == LogN(lvl, msg, n) \in {out.log[k] : k \in 1..Len(out.log)}

\* The structure of a scene: node set, parentage and transforms.
Structure(S) == S.nodes

\* C1: after create_group is called twice in succession the scene holds
\* exactly one root group, which has exactly one GRP_geom and exactly one
\* GRP_rig as children, and no further copy of any of the three exists.
C1_TwiceOneOfEach ==
  LET S2 == create_group(create_group(scene, env).S, env).S
      roots == Named(S2, RootNm[1])
      geoms == Named(S2, "GRP_geom")
      rigs == Named(S2, "GRP_rig")
  IN /\ Cardinality(roots) = 1
     /\ Cardinality(geoms) = 1
     /\ Cardinality(rigs) = 1
     /\ \A g \in geoms \cup rigs : S2.nodes[g].parent \in roots

\* C2: whatever was pressed and moved, the scene holds at most three joints,
\* at most one for each of the names JNT_root, JNT_base, JNT_move.
C2_AtMostThreeJoints ==
  /\ Cardinality(Joints(scene)) <= 3
  /\ \A k \in 1..3 : Cardinality(Named(scene, _jnt_names[k][1])) <= 1

\* C2 witness: build_rig has run again on joints that were already there.
C2_Witness ==
  /\ out.op = "build_rig"
  /\ \A k \in 1..3 : LoggedFor("INFO", "Moved joint to locator position", _jnt_names[k][1])
  /\ Cardinality(Joints(scene)) = 3

BuildRigPassed == out.op = "build_rig" /\ ~Logged("ERROR", "rig group does not exist")
                    /\ ~Logged("ERROR", "locator not found")

\* C3: when build_rig passes its checks, each joint exists on return and is
\* at the world translation its locator had when build_rig was called.
C3_JointsAtLocators ==
  [][ BuildRigPassed' =>
        \A k \in 1..3 :
          /\ Cardinality(Match(scene', <<_jnt_names[k]>>)) = 1
          /\ WorldT(scene', Resolve(scene', <<_jnt_names[k]>>))
               = WorldT(scene, Resolve(scene, <<_loc_names[k]>>)) ]_vars

\* C3 witness: JNT_root and JNT_base were both there and moved in one call,
\* JNT_base staying the child of JNT_root, and the two ended apart.
C3_Witness ==
  /\ BuildRigPassed
  /\ LoggedFor("INFO", "Moved joint to locator position", "JNT_root")
  /\ LoggedFor("INFO", "Moved joint to locator position", "JNT_base")
  /\ LoggedFor("INFO", "Created joint", "JNT_move") = FALSE
  /\ <<"parent", Resolve(scene, <<_jnt_names[2]>>)>> \notin {out.calls[k] : k \in 1..Len(out.calls)}
  /\ WorldT(scene, Resolve(scene, <<_jnt_names[1]>>)) = 1
  /\ WorldT(scene, Resolve(scene, <<_jnt_names[2]>>)) = 0
  /\ WorldT(scene, Resolve(scene, <<_jnt_names[3]>>)) = 1

ParentOf(S, p) == S.nodes[Resolve(S, p)].parent

\* C4: after a build_rig that passes its checks JNT_move is under JNT_base,
\* JNT_base under JNT_root and JNT_root under the rig group of the asset.
C4_ChainUnderRig ==
  BuildRigPassed =>
    /\ ParentOf(scene, <<_jnt_names[3]>>) = Resolve(scene, <<_jnt_names[2]>>)
    /\ ParentOf(scene, <<_jnt_names[2]>>) = Resolve(scene, <<_jnt_names[1]>>)
    /\ objExists(scene, RigPath)
    /\ ParentOf(scene, <<_jnt_names[1]>>) = Resolve(scene, RigPath)

\* C4 witness: the joints were there before the call, and JNT_base had to be
\* brought back under JNT_root.
C4_Witness ==
  /\ BuildRigPassed
  /\ \A k \in 1..3 : LoggedFor("INFO", "Moved joint to locator position", _jnt_names[k][1])
  /\ <<"parent", Resolve(scene, <<_jnt_names[2]>>)>> \in {out.calls[k] : k \in 1..Len(out.calls)}

\* C5: build_rig called while a locator is missing reports an error and
\* creates no joint.
C5_NoLocatorsNoJoints ==
  [][ (out'.op = "build_rig" /\ MissingLocator(scene)) =>
        /\ HasLevel(out'.log, "ERROR")
        /\ Joints(scene') = Joints(scene)
        /\ Len(scene'.nodes) = Len(scene.nodes) ]_vars

\* C5 witness: build_rig found the rig group and then missed a locator.
C5_Witness ==
  /\ out.op = "build_rig"
  /\ Logged("ERROR", "locator not found")
  /\ objExists(scene, RigPath)
  /\ Joints(scene) = {}

\* The prerequisite of each handler, as the claim lists them.
PrereqMissing(op, S) ==
  CASE op = "place_locators" -> ~objExists(S, <<RootNm>>)
    [] op = "build_rig" -> ~objExists(S, RigPath) \/ MissingLocator(S)
    [] op = "bind_geom" -> \/ ~objExists(S, GeomPath)
                           \/ ~objExists(S, RigPath)
                           \/ \E k \in 1..3 : ~objExists(S, <<_jnt_names[k]>>)
    [] OTHER -> FALSE

\* C6: place_locators, build_rig and bind_geom called without their
\* prerequisite log an error and leave the scene graph (nodes, parentage,
\* transforms, selection, skin bindings) as it was.
C6_MissingPrerequisiteNoMutation ==
  [][ PrereqMissing(out'.op, scene) =>
        /\ HasLevel(out'.log, "ERROR")
        /\ scene' = scene ]_vars

\* C6 witness: bind_geom was pressed with the groups there and joints
\* missing, while something was selected.
C6_Witness ==
  /\ out.op = "bind_geom"
  /\ Logged("ERROR", "Joints missing")
  /\ scene.sel # <<>>
  /\ \E k \in 1..3 : objExists(scene, <<_loc_names[k]>>)

\* The three presses in a row.
FullSequence(S, e) ==
  build_rig(place_locators(create_group(S, e).S, e).S, e).S

RECURSIVE MoveLocators(_, _, _)
MoveLocators(S, m, k) ==
  IF k > 3 THEN S
  ELSE MoveLocators(IF objExists(S, <<_loc_names[k]>>)
                    THEN hostXform(S, Resolve(S, <<_loc_names[k]>>), m[k]) ELSE S,
                    m, k + 1)

NoMeshLogged(lg) == Log("WARNING", "No mesh geometry found") \in {lg[k] : k \in 1..Len(lg)}

\* C8: bind_geom with its prerequisites present and no mesh owner under the
\* geometry group issues no skinCluster call, logs a warning and changes
\* nothing.
C8_NoMeshNoBind ==
  [][ (/\ out'.op = "bind_geom"
       /\ ~PrereqMissing("bind_geom", scene)
       /\ MeshOwners(scene, Resolve(scene, GeomPath)) = {}) =>
        /\ out'.calls = <<>>
        /\ NoMeshLogged(out'.log)
        /\ scene' = scene ]_vars

\* C8 witness: bind_geom ran with the joints built and the cube left outside
\* GRP_geom.
C8_Witness ==
  /\ out.op = "bind_geom"
  /\ NoMeshLogged(out.log)
  /\ Cardinality(Joints(scene)) = 3
  /\ scene.sel # <<>>

\* C9: for each of create_group, place_locators and build_rig, two presses
\* in a row leave the same node set, parentage and transforms as one press.
C9_Idempotent ==
  /\ Structure(create_group(create_group(scene, env).S, env).S)
       = Structure(create_group(scene, env).S)
  /\ Structure(place_locators(place_locators(scene, env).S, env).S)
       = Structure(place_locators(scene, env).S)
  /\ Structure(build_rig(build_rig(scene, env).S, env).S)
       = Structure(build_rig(scene, env).S)

\* The transform that stands for a selected node: the owner of a shape, the
\* node itself otherwise.
OwningTransform(S, i) == IF S.nodes[i].type = "mesh" THEN S.nodes[i].parent ELSE i

\* C10: every node selected when create_group is pressed (its owning
\* transform for a shape) is a child of the geometry group on return.
C10_SelectionUnderGeom ==
  [][ out'.op = "create_group" =>
        \A k \in 1..Len(scene.sel) :
          /\ objExists(scene', GeomPath)
          /\ scene'.nodes[OwningTransform(scene, scene.sel[k])].parent
               = Resolve(scene', GeomPath) ]_vars

\* C11: after a place_locators call made while the root group exists, each
\* of the three locators exists exactly once and is at the world position of
\* the root group's pivot.
C11_LocatorsAtPivot ==
  [][ (out'.op = "place_locators" /\ objExists(scene, <<RootNm>>)) =>
        \A k \in 1..3 :
          /\ Cardinality(Named(scene', _loc_names[k][1])) = 1
          /\ WorldT(scene', Resolve(scene', <<_loc_names[k]>>))
               = WorldT(scene, Resolve(scene, <<RootNm>>)) ]_vars

\* C11 witness: place_locators ran on locators that were already there, one
\* of them reparented under GRP_geom, with the pivot away from the origin.
C11_Witness ==
  /\ out.op = "place_locators"
  /\ ~Logged("INFO", "Created locator")
  /\ Logged("INFO", "Locators placed")
  /\ WorldT(scene, Resolve(scene, <<RootNm>>)) # 0
  /\ \E k \in 1..3 : ParentOf(scene, <<_loc_names[k]>>) # World

\* The joint chain of scene S is in place: JNT_base under JNT_root, JNT_move
\* under JNT_base and JNT_root under the rig group of the asset.
ChainInPlace(S) ==
  /\ \A k \in 1..3 : objExists(S, <<_jnt_names[k]>>)
  /\ objExists(S, RigPath)
  /\ ParentOf(S, <<_jnt_names[3]>>) = Resolve(S, <<_jnt_names[2]>>)
  /\ ParentOf(S, <<_jnt_names[2]>>) = Resolve(S, <<_jnt_names[1]>>)
  /\ ParentOf(S, <<_jnt_names[1]>>) = Resolve(S, RigPath)

\* C12: a build_rig called while the chain is already in place, JNT_root
\* under the rig group included, issues no reparent call to the host.
C12_NoRedundantReparent ==
  [][ (BuildRigPassed' /\ ChainInPlace(scene)) => out'.calls = <<>> ]_vars

\* C13: a create_group called on a selection while the three groups exist
\* never aborts: it runs to its closing "Moved ..." message, and each
\* selected node that is not under the geometry group on return was reported
\* by a warning.
C13_BatchNeverAborts ==
  [][ (/\ out'.op = "create_group"
       /\ scene.sel # <<>>
       /\ objExists(scene, GeomPath) /\ objExists(scene, RigPath)) =>
        /\ ~out'.raised
        /\ \E k \in 1..Len(out'.log) : out'.log[k][2] = "Moved item(s) under GRP_geom"
        /\ \A k \in 1..Len(scene.sel) :
             \/ scene'.nodes[OwningTransform(scene, scene.sel[k])].parent
                  = Resolve(scene', GeomPath)
             \/ \E j \in 1..Len(out'.log) : out'.log[j] = Log("WARNING", "Could not parent") ]_vars

\* The root group and its two child groups exist in scene S.
GroupsExist(S) ==
  objExists(S, <<RootNm>>) /\ objExists(S, GeomPath) /\ objExists(S, RigPath)

\* C14 as stated: a create_group called with an empty selection logs the
\* "No selection found" warning and leaves the scene as it was, whether or
\* not the groups existed.
C14_EmptySelectionAlwaysNoOp ==
  [][ (out'.op = "create_group" /\ scene.sel = <<>>) =>
        /\ Log("WARNING", "No selection found") \in {out'.log[k] : k \in 1..Len(out'.log)}
        /\ Structure(scene') = Structure(scene) ]_vars

\* C14 amended: a create_group called with an empty selection while the
\* root, geometry and rig groups exist logs the "No selection found" warning,
\* issues no reparent call and leaves the scene as it was.
C14_EmptySelectionNoOp ==
  [][ (out'.op = "create_group" /\ scene.sel = <<>> /\ GroupsExist(scene)) =>
        /\ Log("WARNING", "No selection found") \in {out'.log[k] : k \in 1..Len(out'.log)}
        /\ out'.calls = <<>>
        /\ scene' = scene ]_vars

\* C14 witness: create_group has returned on the warning in a scene that
\* holds the three groups and the locators.
C14_Witness ==
  /\ out.op = "create_group"
  /\ Logged("WARNING", "No selection found")
  /\ GroupsExist(scene)
  /\ \A k \in 1..3 : objExists(scene, <<_loc_names[k]>>)

\* C15: a bind_geom that passes its checks with at least one mesh-owning
\* transform under the geometry group issues exactly one skinCluster call,
\* made on the selection JNT_root, JNT_base, JNT_move followed by every
\* transform below the geometry group that owns a mesh shape; this holds on
\* a repeated call as well.
C15_OneFullBind ==
  [][ (out'.op = "bind_geom" /\ ~PrereqMissing("bind_geom", scene)) =>
        LET g == Resolve(scene, GeomPath)
            owners == {t \in Ids(scene) :
                         /\ t # g /\ IsAncestor(scene, g, t)
                         /\ scene.nodes[t].type = "transform"
                         /\ \E c \in Ids(scene) : /\ scene.nodes[c].parent = t
                                                  /\ scene.nodes[c].type = "mesh"}
        IN owners # {} =>
             /\ out'.calls = << <<"skinCluster", Cardinality(owners)>> >>
             /\ Len(scene'.sel) = 3 + Cardinality(owners)
             /\ \A k \in 1..3 : scene'.nodes[scene'.sel[k]].name = _jnt_names[k]
             /\ {scene'.sel[k] : k \in 4..Len(scene'.sel)} = owners ]_vars

\* C15 witness: with the cube and the sphere both under the geometry group,
\* bind_geom was pressed again on meshes that already had a skin, and the
\* call on both was issued again.
C15_Witness ==
  /\ out.op = "bind_geom"
  /\ Logged("ERROR", "Bind failed")
  /\ out.calls = << <<"skinCluster", 2>> >>
  /\ scene.skin # {}

C17_NothingDestroyed ==
  [][ out'.op \in {"create_group", "place_locators", "build_rig", "bind_geom"} =>
        /\ \A i \in Ids(scene) :
             /\ i \in Ids(scene')
             /\ scene'.nodes[i].name[1] = scene.nodes[i].name[1]
             /\ scene'.nodes[i].type = scene.nodes[i].type
        /\ objExists(scene, RigPath) => objExists(scene', RigPath)
        /\ Log("INFO", "Created GRP_rig") \in {out'.log[k] : k \in 1..Len(out'.log)}
             => objExists(scene', RigPath) ]_vars

\* The nodes below node g in scene S.
Below(S, g) == {i \in Ids(S) : i # g /\ IsAncestor(S, g, i)}

\* C18 as stated: a build_rig call leaves the locators, the three groups
\* and everything under the geometry group as they were.
C18_BuildRigFrame ==
  [][ out'.op = "build_rig" =>
        /\ \A i \in Ids(scene) :
             scene.nodes[i].type # "joint" =>
               /\ scene'.nodes[i] = scene.nodes[i]
               /\ WorldT(scene', i) = WorldT(scene, i)
        /\ objExists(scene, GeomPath) =>
             LET g == Resolve(scene, GeomPath)
             IN /\ Below(scene', g) = Below(scene, g)
                /\ \A i \in Below(scene, g) : scene'.nodes[i] = scene.nodes[i] ]_vars

\* C18 amended: a build_rig call leaves every node other than a joint as it
\* was (name, parent, translation, world position), adds nothing but joints
\* and keeps the skin bindings; create_group and bind_geom do not move a
\* locator either.
C18_BuildRigFrameButJoints ==
  [][ /\ out'.op = "build_rig" =>
           /\ \A i \in Ids(scene) :
                scene.nodes[i].type # "joint" =>
                  /\ scene'.nodes[i] = scene.nodes[i]
                  /\ WorldT(scene', i) = WorldT(scene, i)
           /\ \A i \in Ids(scene') \ Ids(scene) : scene'.nodes[i].type = "joint"
           /\ scene'.skin = scene.skin
      /\ out'.op \in {"create_group", "bind_geom"} =>
           \A i \in Movable(scene, env) : WorldT(scene', i) = WorldT(scene, i) ]_vars

\* C18 witness: build_rig passed with the joints already there, the three
\* locators not all at one place and one of them under the geometry group.
C18_Witness ==
  /\ BuildRigPassed
  /\ LoggedFor("INFO", "Moved joint to locator position", "JNT_root")
  /\ \E i, j \in Movable(scene, env) : WorldT(scene, i) # WorldT(scene, j)
  /\ \E i \in Movable(scene, env) : scene.nodes[i].parent # World

\* C19: with the tool used for two assets in any interleaving, the scene
\* holds at most three locators and at most three joints, and after a
\* build_rig that passed its checks the one joint chain is under the rig
\* group of the asset that was current at that call.
C19_OneChainForCurrentAsset ==
  /\ Cardinality(Movable(scene, env)) <= 3
  /\ Cardinality(UNION {Named(scene, _loc_names[k][1]) : k \in 1..3}) <= 3
  /\ Cardinality(Joints(scene)) <= 3
  /\ BuildRigPassed =>
       /\ Cardinality(Joints(scene)) = 3
       /\ ChainInPlace(scene)
       /\ scene.nodes[ParentOf(scene, <<_jnt_names[1]>>)].parent
            = Resolve(scene, <<RootNm>>)

\* C19 witness: build_rig for trex found the joints built earlier and moved
\* JNT_root under GRP_trex|GRP_rig.
C19_Witness ==
  /\ BuildRigPassed
  /\ env = "trex"
  /\ \A k \in 1..3 : LoggedFor("INFO", "Moved joint to locator position", _jnt_names[k][1])
  /\ out.calls = << <<"parent", Resolve(scene, <<_jnt_names[1]>>)>> >>
  /\ ~Logged("WARNING", "Parenting JNT_root under GRP_rig failed")
  /\ FullPath(scene, ParentOf(scene, <<_jnt_names[1]>>))
       = <<Bar, _grp_names("trex")[1], _grp_names("trex")[3]>>

====
